---- MODULE Spec2Model ----
(***************************************************************************)
(* Service-provider side of the SGX remote-attestation bootstrap.          *)
(*                                                                         *)
(*  - sample-sp/src/main.rs: the Bootstrap Driver, one sequential flow     *)
(*    accept -> config -> init -> attest -> connect -> secure -> framed    *)
(*    read -> decode -> compare, every failure a panic.                    *)
(*  - sgx-crypto/src/signature.rs: the Key Store, VerificationKey and      *)
(*    SigningKey constructors, sign and verify, and the SigError mapping.  *)
(*                                                                         *)
(* The driver is checked under Spec, the Key Store under KeySpec.          *)
(***************************************************************************)
EXTENDS Integers, Sequences, FiniteSets, TLC

(***************************************************************************)
(* Bounds of the model.                                                    *)
(***************************************************************************)
\* Longest content enumerated byte by byte over ByteAlphabet.
MaxLen == 2
\* Most bytes one read of the channel returns, unless it fills the buffer.
MaxChunk == 2

None == "None"

Min(a, b) == IF a < b THEN a ELSE b

Take(s, n) == SubSeq(s, 1, Min(n, Len(s)))

Drop(s, n) == SubSeq(s, Min(n, Len(s)) + 1, Len(s))

RECURSIVE SeqsUpTo(_, _)
\* All sequences over S of length at most n.
SeqsUpTo(S, n) ==
    IF n = 0 THEN {<<>>}
    ELSE LET shorter == SeqsUpTo(S, n - 1)
         IN  shorter \cup {Append(s, x) : s \in shorter, x \in S}

(***************************************************************************)
(* main.rs, line 34: the reference message, as the bytes of the literal.   *)
(***************************************************************************)
msg_ref ==
    <<
       76, 111, 114, 101, 109, 32, 105, 112, 115, 117, 109, 32, 100, 111, 108, 111, 114, 32, 115, 105,
       116, 32, 97, 109, 101, 116, 44, 32, 99, 111, 110, 115, 101, 99, 116, 101, 116, 117, 114, 32,
       97, 100, 105, 112, 105, 115, 99, 105, 110, 103, 32, 101, 108, 105, 116, 46, 32, 80, 101, 108,
       108, 101, 110, 116, 101, 115, 113, 117, 101, 32, 110, 111, 110, 32, 112, 108, 97, 99, 101, 114,
       97, 116, 32, 114, 105, 115, 117, 115, 44, 32, 101, 116, 32, 108, 111, 98, 111, 114, 116, 105,
       115, 32, 113, 117, 97, 109, 46, 32, 77, 97, 117, 114, 105, 115, 32, 118, 101, 108, 105, 116,
       32, 108, 111, 114, 101, 109, 44, 32, 101, 108, 101, 109, 101, 110, 116, 117, 109, 32, 105, 100,
       32, 110, 101, 113, 117, 101, 32, 97, 44, 32, 97, 108, 105, 113, 117, 101, 116, 32, 116, 101,
       109, 112, 117, 115, 32, 116, 117, 114, 112, 105, 115, 46, 32, 78, 97, 109, 32, 101, 117, 32,
       99, 111, 110, 103, 117, 101, 32, 117, 114, 110, 97, 44, 32, 105, 110, 32, 115, 101, 109, 112,
       101, 114, 32, 113, 117, 97, 109, 46, 32, 85, 116, 32, 116, 114, 105, 115, 116, 105, 113, 117,
       101, 32, 103, 114, 97, 118, 105, 100, 97, 32, 110, 117, 110, 99, 32, 110, 101, 99, 32, 102,
       101, 117, 103, 105, 97, 116, 46, 32, 80, 114, 111, 105, 110, 32, 116, 105, 110, 99, 105, 100,
       117, 110, 116, 32, 109, 97, 115, 115, 97, 32, 97, 32, 97, 114, 99, 117, 32, 118, 111, 108,
       117, 116, 112, 97, 116, 44, 32, 115, 97, 103, 105, 116, 116, 105, 115, 32, 100, 105, 103, 110,
       105, 115, 115, 105, 109, 32, 118, 101, 108, 105, 116, 32, 99, 111, 110, 118, 97, 108, 108, 105,
       115, 46, 32, 67, 114, 97, 115, 32, 97, 99, 32, 102, 105, 110, 105, 98, 117, 115, 32, 108,
       111, 114, 101, 109, 44, 32, 110, 101, 99, 32, 99, 111, 110, 103, 117, 101, 32, 102, 101, 108,
       105, 115, 46, 32, 80, 101, 108, 108, 101, 110, 116, 101, 115, 113, 117, 101, 32, 102, 101, 114,
       109, 101, 110, 116, 117, 109, 32, 118, 105, 116, 97, 101, 32, 105, 112, 115, 117, 109, 32, 115,
       101, 100, 32, 103, 114, 97, 118, 105, 100, 97, 46, 32, 78, 117, 108, 108, 97, 32, 99, 111,
       110, 115, 101, 99, 116, 101, 116, 117, 114, 32, 115, 105, 116, 32, 97, 109, 101, 116, 32, 101,
       114, 97, 116, 32, 97, 32, 112, 101, 108, 108, 101, 110, 116, 101, 115, 113, 117, 101, 46, 32,
       68, 111, 110, 101, 99, 32, 110, 111, 110, 32, 118, 101, 108, 105, 116, 32, 115, 101, 109, 46,
       32, 83, 101, 100, 32, 101, 117, 32, 109, 101, 116, 117, 115, 32, 102, 101, 108, 105, 115, 46,
       32, 78, 117, 108, 108, 97, 109, 32, 101, 102, 102, 105, 99, 105, 116, 117, 114, 32, 99, 111,
       110, 115, 101, 113, 117, 97, 116, 32, 97, 110, 116, 101, 44, 32, 117, 116, 32, 99, 111, 109,
       109, 111, 100, 111, 32, 110, 105, 115, 105, 32, 112, 104, 97, 114, 101, 116, 114, 97, 32, 99,
       111, 110, 115, 101, 113, 117, 97, 116, 46, 32, 85, 116, 32, 97, 99, 99, 117, 109, 115, 97,
       110, 32, 101, 103, 101, 116, 32, 108, 105, 103, 117, 108, 97, 32, 108, 97, 111, 114, 101, 101,
       116, 32, 100, 105, 99, 116, 117, 109, 46, 32, 77, 97, 101, 99, 101, 110, 97, 115, 32, 116,
       114, 105, 115, 116, 105, 113, 117, 101, 32, 112, 111, 114, 116, 97, 32, 99, 111, 110, 118, 97,
       108, 108, 105, 115, 46, 32, 83, 117, 115, 112, 101, 110, 100, 105, 115, 115, 101, 32, 116, 101,
       109, 112, 111, 114, 32, 115, 111, 100, 97, 108, 101, 115, 32, 118, 101, 108, 105, 116, 44, 32,
       97, 99, 32, 108, 117, 99, 116, 117, 115, 32, 117, 114, 110, 97, 32, 118, 97, 114, 105, 117,
       115, 32, 101, 117, 46, 32, 85, 116, 32, 117, 108, 116, 114, 105, 99, 101, 115, 32, 117, 114,
       110, 97, 32, 118, 101, 115, 116, 105, 98, 117, 108, 117, 109, 32, 118, 101, 115, 116, 105, 98,
       117, 108, 117, 109, 32, 101, 117, 105, 115, 109, 111, 100, 46, 32, 86, 105, 118, 97, 109, 117,
       115, 32, 101, 117, 32, 115, 97, 112, 105, 101, 110, 32, 117, 114, 110, 97, 46
    >>

(***************************************************************************)
(* byteorder::ReadBytesExt::read_u32::<NetworkEndian> (main.rs line 30):   *)
(* four bytes, most significant first.                                     *)
(***************************************************************************)
read_u32_be(b) == ((b[1] * 256 + b[2]) * 256 + b[3]) * 256 + b[4]

\* The sender's side of the frame format: the length prefix of a frame.
u32_be_bytes(n) ==
    << (n \div 16777216) % 256, (n \div 65536) % 256, (n \div 256) % 256, n % 256 >>

(***************************************************************************)
(* std::str::from_utf8 (main.rs line 33): the well-formed byte sequences   *)
(* of UTF-8, one scalar value at a time from the left.                     *)
(***************************************************************************)
InRange(x, lo, hi) == lo <= x /\ x <= hi

\* Width of the scalar value that starts at b[i], or 0 if none is well formed.
Utf8CharWidth(b, i) ==
    LET n == Len(b)
        c == b[i]
        Cont(j) == j <= n /\ InRange(b[j], 128, 191)
        Second(lo, hi) == i + 1 <= n /\ InRange(b[i + 1], lo, hi)
    IN  IF c < 128 THEN 1
        ELSE IF InRange(c, 194, 223) THEN (IF Cont(i + 1) THEN 2 ELSE 0)
        ELSE IF c = 224 THEN (IF Second(160, 191) /\ Cont(i + 2) THEN 3 ELSE 0)
        ELSE IF InRange(c, 225, 236) \/ InRange(c, 238, 239)
             THEN (IF Cont(i + 1) /\ Cont(i + 2) THEN 3 ELSE 0)
        ELSE IF c = 237 THEN (IF Second(128, 159) /\ Cont(i + 2) THEN 3 ELSE 0)
        ELSE IF c = 240
             THEN (IF Second(144, 191) /\ Cont(i + 2) /\ Cont(i + 3) THEN 4 ELSE 0)
        ELSE IF InRange(c, 241, 243)
             THEN (IF Cont(i + 1) /\ Cont(i + 2) /\ Cont(i + 3) THEN 4 ELSE 0)
        ELSE IF c = 244
             THEN (IF Second(128, 143) /\ Cont(i + 2) /\ Cont(i + 3) THEN 4 ELSE 0)
        ELSE 0

IsContinuation(x) == InRange(x, 128, 191)

\* b[i] is a continuation byte of the scalar value that starts at the nearest
\* non-continuation byte before it.
Utf8Covered(b, i) ==
    \E j \in 1..(i - 1) :
        /\ i - j <= 3
        /\ ~IsContinuation(b[j])
        /\ \A m \in (j + 1)..i : IsContinuation(b[m])
        /\ Utf8CharWidth(b, j) > i - j

\* The left-to-right scan of from_utf8 accepts b exactly when every byte either
\* starts a well-formed scalar value or continues the one started before it.
from_utf8_ok(b) ==
    \A i \in 1..Len(b) :
        IF IsContinuation(b[i]) THEN Utf8Covered(b, i) ELSE Utf8CharWidth(b, i) > 0

(***************************************************************************)
(* State.                                                                  *)
(***************************************************************************)
VARIABLES
    \* Bootstrap Driver (main.rs)
    pc,          \* the call main is at, "Done" after line 37, "Error" after a panic
    failedAt,    \* the value of pc at which main panicked, None otherwise
    diag,        \* the panic message: [label, kind, line], NoDiag otherwise
    log,         \* the calls that have returned successfully, in order
    stderr,      \* the lines written by eprintln!
    master_key,  \* result.master_key of line 19, None before
    keys,        \* the master keys do_attestation has produced, in order
    channels,    \* the key of every SecureChannel constructed, in order
    wire,        \* the plaintext bytes the enclave still delivers before it closes
    hdr,         \* the filled part of read_u32's four byte buffer
    len,         \* len of line 30, 0 before
    msg,         \* the filled part of the vec msg of line 31, the str of line 33
    \* Key Store (signature.rs)
    vk,          \* the VerificationKey held: [key |-> bytes], None if none
    sk,          \* the SigningKey held: [key_pair |-> ...], None if none
    last         \* the last Key Store call: its name, arguments and Result

ctl == <<pc, failedAt, diag>>
session == <<master_key, keys, channels>>
frame == <<wire, hdr, len, msg>>
output == <<log, stderr>>
dvars == <<ctl, session, frame, output>>
kvars == <<vk, sk, last>>
vars == <<dvars, kvars>>

(***************************************************************************)
(* The driver's environment.                                               *)
(***************************************************************************)
\* Master keys the attestation engine may derive.
MasterKeys == {"mk1", "mk2"}

\* std::io::ErrorKind values of the TCP and file calls.
IoErrorKinds == {"ConnectionRefused", "TimedOut"}

\* 'a', and the two bytes of U+00E9: a lead byte and a continuation byte.
ByteAlphabet == {97, 195, 169}

\* Contents the enclave may send after the length prefix.
Contents ==
    SeqsUpTo(ByteAlphabet, MaxLen)
        \cup { msg_ref,
               Take(msg_ref, Len(msg_ref) - 1),
               Take(msg_ref, 50),
               [msg_ref EXCEPT ![1] = 108],
               Append(msg_ref, 97) }

\* Lengths the enclave may declare.
DeclaredLens == (0..(MaxLen + 1)) \cup {100, Len(msg_ref)}

\* What the enclave delivers before it closes: a frame, whole or cut short.
Wires ==
    { u32_be_bytes(L) \o c : L \in DeclaredLens, c \in Contents }
        \cup { Take(u32_be_bytes(L), t) : L \in DeclaredLens, t \in 0..3 }

(***************************************************************************)
(* Panics: expect, unwrap and assert_eq! of main.rs end the process with   *)
(* a message made of a label, the Debug form of the error and the line.    *)
(***************************************************************************)
NoDiag == [label |-> None, kind |-> None, line |-> 0]

UnwrapLabel == "called Result::unwrap() on an Err value"
AssertLabel == "assertion failed: (left == right)"

\* A failure that is recorded, after which main goes on where it was.
PanicResume(label, kind, line) ==
    /\ pc' = pc
    /\ failedAt' = pc
    /\ diag' = [label |-> label, kind |-> kind, line |-> line]
    /\ UNCHANGED <<session, frame, output>>

Panic(label, kind, line) ==
    /\ pc' = "Error"
    /\ failedAt' = pc
    /\ diag' = [label |-> label, kind |-> kind, line |-> line]
    /\ UNCHANGED <<session, frame, output>>

\* A call returned Ok: main goes on to the next call.
Goto(next) ==
    /\ pc' = next
    /\ log' = Append(log, pc)
    /\ UNCHANGED <<failedAt, diag>>

DriverInit ==
    /\ pc = "accept"
    /\ failedAt = None
    /\ diag = NoDiag
    /\ log = <<>>
    /\ stderr = <<>>
    /\ master_key = None
    /\ keys = <<>>
    /\ channels = <<>>
    /\ wire = <<>>
    /\ hdr = <<>>
    /\ len = 0
    /\ msg = <<>>

(***************************************************************************)
(* main, lines 13-19: accept the client, load the configuration, attest.   *)
(***************************************************************************)
\* lines 14-16: tcp_accept(client_port).expect(..); eprintln!
Accept ==
    /\ pc = "accept"
    /\ UNCHANGED kvars
    /\ \/ /\ Goto("config")
          /\ stderr' = Append(stderr, <<"SP: connected to client.">>)
          /\ UNCHANGED <<session, frame>>
       \/ \E e \in IoErrorKinds : Panic("SP: Client connection failed", e, 15)

\* lines 17, 8-10: File::open(path).unwrap(), serde_json::from_reader(..).unwrap()
ParseConfig ==
    /\ pc = "config"
    /\ UNCHANGED kvars
    /\ \/ /\ Goto("init")
          /\ UNCHANGED <<stderr, session, frame>>
       \/ \E e \in {"NotFound", "Json"} : Panic(UnwrapLabel, e, 9)

\* line 18: SpRaContext::init(config).unwrap()
InitContext ==
    /\ pc = "init"
    /\ UNCHANGED kvars
    /\ \/ /\ Goto("attest")
          /\ UNCHANGED <<stderr, session, frame>>
       \/ Panic(UnwrapLabel, "SpRaError", 18)

\* An attestation whose failure is ignored: main goes on without a master key.
AttestIgnoringFailure ==
    /\ pc = "attest"
    /\ UNCHANGED kvars
    /\ \/ \E k \in MasterKeys :
            /\ Goto("connect")
            /\ master_key' = k
            /\ keys' = Append(keys, k)
            /\ UNCHANGED <<stderr, channels, frame>>
       \/ /\ Goto("connect")
          /\ UNCHANGED <<stderr, session, frame>>

\* line 19: context.do_attestation(&mut client_stream).unwrap()
Attest ==
    /\ pc = "attest"
    /\ UNCHANGED kvars
    /\ \/ \E k \in MasterKeys :
            /\ Goto("connect")
            /\ master_key' = k
            /\ keys' = Append(keys, k)
            /\ UNCHANGED <<stderr, channels, frame>>
       \/ Panic(UnwrapLabel, "AttestationFailed", 19)

(***************************************************************************)
(* main, lines 22-29: connect to the enclave, wrap the stream.             *)
(***************************************************************************)
\* lines 25-26: tcp_connect(localhost, enclave_port, timeout).expect(..)
Connect ==
    /\ pc = "connect"
    /\ UNCHANGED kvars
    /\ \/ \E w \in Wires :
            /\ Goto("secure")
            /\ wire' = w
            /\ UNCHANGED <<stderr, session, hdr, len, msg>>
       \/ \E e \in IoErrorKinds : Panic("SP: Enclave connection failed", e, 26)

\* A driver that wraps the stream twice with the same key.
SecureTwice ==
    /\ pc = "secure"
    /\ UNCHANGED kvars
    /\ Goto("read_len")
    /\ channels' = channels \o <<master_key, master_key>>
    /\ UNCHANGED <<stderr, master_key, keys, frame>>

\* line 29: SecureChannel::new(enclave_stream, &result.master_key); it returns
\* the channel itself, not a Result.
Secure ==
    /\ pc = "secure"
    /\ UNCHANGED kvars
    /\ Goto("read_len")
    /\ channels' = Append(channels, master_key)
    /\ UNCHANGED <<stderr, master_key, keys, frame>>

(***************************************************************************)
(* main, lines 30-32: the framed read over the secure channel.             *)
(***************************************************************************)
\* One call of SecureChannel's Read::read on a buffer with `space` bytes left:
\* some of the bytes still to come, end of stream once the enclave has closed,
\* or an error of the transport at any time.  A call that blocks is no step.
ChannelRead(space) ==
    LET most == Min(space, Len(wire))
    IN  { [kind |-> "data", n |-> n] : n \in { m \in 1..most : m <= MaxChunk \/ m = most } }
            \cup (IF wire = <<>> THEN {[kind |-> "eof", n |-> 0]} ELSE {})
            \cup {[kind |-> "err", n |-> 0]}

\* line 30: secure_channel.read_u32::<NetworkEndian>().unwrap() as usize.
\* read_u32 is read_exact on four bytes, one read of the channel per step; a
\* length of 0 makes the read_exact of line 32 return at once, without a read.
ReadLen ==
    /\ pc = "read_len"
    /\ UNCHANGED kvars
    /\ \E r \in ChannelRead(4 - Len(hdr)) :
         \/ /\ r.kind = "data"
            /\ LET h == hdr \o Take(wire, r.n)
               IN  /\ hdr' = h
                   /\ wire' = Drop(wire, r.n)
                   /\ IF Len(h) < 4
                      THEN UNCHANGED <<ctl, log, len>>
                      ELSE /\ len' = read_u32_be(h)
                           /\ pc' = IF len' = 0 THEN "decode" ELSE "read_body"
                           /\ log' = IF len' = 0
                                     THEN log \o <<"read_len", "read_body">>
                                     ELSE Append(log, "read_len")
                           /\ UNCHANGED <<failedAt, diag>>
            /\ UNCHANGED <<stderr, session, msg>>
         \/ /\ r.kind = "eof"
            /\ Panic(UnwrapLabel, "UnexpectedEof", 30)
         \/ /\ r.kind = "err"
            /\ Panic(UnwrapLabel, "ChannelError", 30)

\* A read_exact that takes the end of the stream for the end of the message.
ReadBodyShort ==
    /\ pc = "read_body"
    /\ UNCHANGED kvars
    /\ \E r \in ChannelRead(len - Len(msg)) :
         \/ /\ r.kind = "data"
            /\ LET m == msg \o Take(wire, r.n)
               IN  /\ msg' = m
                   /\ wire' = Drop(wire, r.n)
                   /\ IF Len(m) < len THEN UNCHANGED <<ctl, log>> ELSE Goto("decode")
            /\ UNCHANGED <<stderr, session, hdr, len>>
         \/ /\ r.kind = "eof"
            /\ Goto("decode")
            /\ UNCHANGED <<stderr, session, frame>>
         \/ /\ r.kind = "err"
            /\ Panic(UnwrapLabel, "ChannelError", 32)

\* lines 31-32: let mut msg = vec![0u8; len];
\*              secure_channel.read_exact(&mut msg[..]).unwrap()
ReadBody ==
    /\ pc = "read_body"
    /\ UNCHANGED kvars
    /\ \E r \in ChannelRead(len - Len(msg)) :
         \/ /\ r.kind = "data"
            /\ LET m == msg \o Take(wire, r.n)
               IN  /\ msg' = m
                   /\ wire' = Drop(wire, r.n)
                   /\ IF Len(m) < len THEN UNCHANGED <<ctl, log>> ELSE Goto("decode")
            /\ UNCHANGED <<stderr, session, hdr, len>>
         \/ /\ r.kind = "eof"
            /\ Panic(UnwrapLabel, "UnexpectedEof", 32)
         \/ /\ r.kind = "err"
            /\ Panic(UnwrapLabel, "ChannelError", 32)

(***************************************************************************)
(* main, lines 33-37: decode, compare with the reference, report.          *)
(***************************************************************************)
\* line 33: std::str::from_utf8(msg.as_slice()).unwrap(); the str is a view of
\* the same bytes.
Decode ==
    /\ pc = "decode"
    /\ UNCHANGED kvars
    /\ IF from_utf8_ok(msg)
       THEN /\ Goto("compare")
            /\ UNCHANGED <<stderr, session, frame>>
       ELSE Panic(UnwrapLabel, "Utf8Error", 33)

\* A driver that reports whatever it decoded.
ReportWithoutAssert ==
    /\ pc = "compare"
    /\ UNCHANGED kvars
    /\ Goto("Done")
    /\ stderr' = stderr \o << <<"SP: message from Enclave = ", msg>>, <<"SP: done!">> >>
    /\ UNCHANGED <<session, frame>>

\* lines 35-37: assert_eq!(msg, msg_ref); eprintln!(..); eprintln!("SP: done!")
Compare ==
    /\ pc = "compare"
    /\ UNCHANGED kvars
    /\ IF msg = msg_ref
       THEN /\ Goto("Done")
            /\ stderr' = stderr \o << <<"SP: message from Enclave = ", msg>>,
                                     <<"SP: done!">> >>
            /\ UNCHANGED <<session, frame>>
       ELSE Panic(AssertLabel, "assert_eq", 35)

DriverNext ==
    \/ Accept
    \/ ParseConfig
    \/ InitContext
    \/ Attest
    \/ Connect
    \/ Secure
    \/ ReadLen
    \/ ReadBody
    \/ Decode
    \/ Compare

(***************************************************************************)
(* The Key Store's environment: RSA at a small scale.  A key pair is two   *)
(* primes p and q with n = p * q, a public exponent e and the private      *)
(* exponent d; `bits` is the size of the modulus the pair stands for, which *)
(* is what the size limits of ring are checked against.                    *)
(***************************************************************************)
KeyPairs ==
    { [bits |-> 1024, n |-> 3127, e |-> 17, d |-> 2129, p |-> 53, q |-> 59],
      [bits |-> 2048, n |-> 3233, e |-> 17, d |-> 2753, p |-> 61, q |-> 53],
      [bits |-> 4096, n |-> 2773, e |-> 17, d |-> 157, p |-> 47, q |-> 59],
      [bits |-> 8192, n |-> 3127, e |-> 17, d |-> 2129, p |-> 53, q |-> 59] }

NoKeyPair == [bits |-> 0, n |-> 0, e |-> 0, d |-> 0, p |-> 0, q |-> 0]

\* DER of an RSA public key: a SEQUENCE (tag 48) of the modulus and the exponent.
PublicDer(kp) == <<48, kp.bits \div 1024, kp.n \div 256, kp.n % 256, kp.e>>

\* DER of an RSA private key: a SEQUENCE of n, e, d, p and q.
PrivateDer(kp) ==
    <<48, kp.bits \div 1024, kp.n \div 256, kp.n % 256, kp.e,
      kp.d \div 256, kp.d % 256, kp.p, kp.q>>

\* The public key a DER blob encodes, NoKeyPair if it is no public key structure.
ParsePublicKey(b) ==
    IF Len(b) = 5 /\ b[1] = 48 /\ b[2] >= 1 /\ (b[3] * 256 + b[4]) % 2 = 1 /\ b[5] >= 3
    THEN [NoKeyPair EXCEPT !.bits = b[2] * 1024, !.n = b[3] * 256 + b[4], !.e = b[5]]
    ELSE NoKeyPair

\* The key pair a DER blob encodes, NoKeyPair if it is no consistent private key
\* structure.
ParsePrivateKey(b) ==
    IF /\ Len(b) = 9
       /\ b[1] = 48
       /\ b[2] >= 1
       /\ b[8] > 1
       /\ b[9] > 1
       /\ b[8] * b[9] = b[3] * 256 + b[4]
       /\ (b[5] * (b[6] * 256 + b[7])) % ((b[8] - 1) * (b[9] - 1)) = 1
    THEN [bits |-> b[2] * 1024, n |-> b[3] * 256 + b[4], e |-> b[5],
          d |-> b[6] * 256 + b[7], p |-> b[8], q |-> b[9]]
    ELSE NoKeyPair

RECURSIVE ModExp(_, _, _)
ModExp(x, k, n) ==
    IF k = 0 THEN 1 % n
    ELSE LET h == ModExp(x, k \div 2, n)
             sq == (h * h) % n
         IN  IF k % 2 = 1 THEN (sq * x) % n ELSE sq

RECURSIVE Digest(_)
\* SHA-256 at the scale of the model: a digest of the bytes and their order.
Digest(m) == IF m = <<>> THEN 7 ELSE (Digest(Take(m, Len(m) - 1)) * 31 + m[Len(m)] + 1) % 2003

\* PKCS#1 v1.5 encoding of the digest: a value in 2..n-1.
EncodedMessage(m, n) == 2 + (Digest(m) % (n - 2))

\* public_modulus_len(): the length of the modulus, and of a signature, in bytes.
ModulusLen(n) == IF n < 256 THEN 1 ELSE 2

IntToBytes(x) == <<x \div 256, x % 256>>

BytesToInt(b) == b[1] * 256 + b[2]

\* Messages that are signed and verified.
Messages == {<<>>, <<1>>, <<1, 2>>, <<2, 1>>}

(***************************************************************************)
(* ring, as signature.rs uses it.                                          *)
(***************************************************************************)
\* signature.rs line 10: moduli of 2048 to 8192 bits are accepted by verify.
SigAlgMinBits == 2048
SigAlgMaxBits == 8192

\* ring::signature::verify(SIG_ALG, key, message, signature): Ok or
\* error::Unspecified, whatever the cause.
ring_verify(key, message, sig) ==
    LET pk == ParsePublicKey(key)
    IN  IF pk = NoKeyPair THEN "Unspecified"
        ELSE IF ~InRange(pk.bits, SigAlgMinBits, SigAlgMaxBits) THEN "Unspecified"
        ELSE IF Len(sig) # ModulusLen(pk.n) THEN "Unspecified"
        ELSE IF BytesToInt(sig) >= pk.n THEN "Unspecified"
        ELSE IF ModExp(BytesToInt(sig), pk.e, pk.n) # EncodedMessage(message, pk.n)
             THEN "Unspecified"
        ELSE "Ok"

\* ring::signature::RsaKeyPair::from_der: a consistent private key of 2048 to
\* 4096 bits, or error::KeyRejected.
RsaKeyPair_from_der(der) ==
    LET kp == ParsePrivateKey(der)
    IN  IF kp # NoKeyPair /\ InRange(kp.bits, 2048, 4096)
        THEN [res |-> "Ok", key_pair |-> kp]
        ELSE [res |-> "KeyRejected", key_pair |-> NoKeyPair]

\* RsaKeyPair::sign(PADDING_ALG, rng, msg, &mut signature): fills the buffer,
\* which must have the length of the modulus; fails if the rng fails.
RsaKeyPair_sign(kp, rngOk, m, bufLen) ==
    IF bufLen = ModulusLen(kp.n) /\ rngOk
    THEN [res |-> "Ok", sig |-> IntToBytes(ModExp(EncodedMessage(m, kp.n), kp.d, kp.n))]
    ELSE [res |-> "Unspecified", sig |-> [i \in 1..bufLen |-> 0]]

(***************************************************************************)
(* crate::pem_parser::pem_to_der: a BEGIN line, the DER in base64, an END  *)
(* line.                                                                   *)
(***************************************************************************)
\* "-----BEGIN-----\n" and "\n-----END-----\n"
PemBegin == <<45, 45, 45, 45, 45, 66, 69, 71, 73, 78, 45, 45, 45, 45, 45, 10>>
PemEnd == <<10, 45, 45, 45, 45, 45, 69, 78, 68, 45, 45, 45, 45, 45, 10>>

\* The base64 character of a six bit value.
B64Char(v) ==
    IF v < 26 THEN 65 + v
    ELSE IF v < 52 THEN 97 + (v - 26)
    ELSE IF v < 62 THEN 48 + (v - 52)
    ELSE IF v = 62 THEN 43 ELSE 47

\* The six bit value of a base64 character, 64 if it is none.
B64Val(c) ==
    IF InRange(c, 65, 90) THEN c - 65
    ELSE IF InRange(c, 97, 122) THEN c - 97 + 26
    ELSE IF InRange(c, 48, 57) THEN c - 48 + 52
    ELSE IF c = 43 THEN 62
    ELSE IF c = 47 THEN 63 ELSE 64

RECURSIVE Base64Encode(_)
Base64Encode(b) ==
    IF b = <<>> THEN <<>>
    ELSE IF Len(b) = 1
         THEN <<B64Char(b[1] \div 4), B64Char((b[1] % 4) * 16), 61, 61>>
    ELSE IF Len(b) = 2
         THEN <<B64Char(b[1] \div 4), B64Char((b[1] % 4) * 16 + b[2] \div 16),
                B64Char((b[2] % 16) * 4), 61>>
    ELSE <<B64Char(b[1] \div 4), B64Char((b[1] % 4) * 16 + b[2] \div 16),
           B64Char((b[2] % 16) * 4 + b[3] \div 64), B64Char(b[3] % 64)>>
             \o Base64Encode(Drop(b, 3))

RECURSIVE Base64Decode(_)
\* [ok, bytes]: the bytes of a base64 text, padded with '=' in its last group only.
Base64Decode(t) ==
    IF t = <<>> THEN [ok |-> TRUE, bytes |-> <<>>]
    ELSE IF Len(t) < 4 THEN [ok |-> FALSE, bytes |-> <<>>]
    ELSE LET v == [i \in 1..4 |-> B64Val(t[i])]
             lastGroup == Len(t) = 4
             b1 == v[1] * 4 + v[2] \div 16
             b2 == (v[2] % 16) * 16 + v[3] \div 4
             b3 == (v[3] % 4) * 64 + v[4]
             rest == Base64Decode(Drop(t, 4))
         IN  IF v[1] = 64 \/ v[2] = 64 THEN [ok |-> FALSE, bytes |-> <<>>]
             ELSE IF lastGroup /\ t[3] = 61 /\ t[4] = 61 THEN [ok |-> TRUE, bytes |-> <<b1>>]
             ELSE IF v[3] = 64 THEN [ok |-> FALSE, bytes |-> <<>>]
             ELSE IF lastGroup /\ t[4] = 61 THEN [ok |-> TRUE, bytes |-> <<b1, b2>>]
             ELSE IF v[4] = 64 \/ ~rest.ok THEN [ok |-> FALSE, bytes |-> <<>>]
             ELSE [ok |-> TRUE, bytes |-> <<b1, b2, b3>> \o rest.bytes]

PemArmor(der) == PemBegin \o Base64Encode(der) \o PemEnd

pem_to_der(pem) ==
    LET n == Len(pem)
        body == SubSeq(pem, Len(PemBegin) + 1, n - Len(PemEnd))
    IN  IF /\ n >= Len(PemBegin) + Len(PemEnd)
           /\ Take(pem, Len(PemBegin)) = PemBegin
           /\ Drop(pem, n - Len(PemEnd)) = PemEnd
           /\ Base64Decode(body).ok
        THEN [res |-> "Ok", der |-> Base64Decode(body).bytes]
        ELSE [res |-> "Err", der |-> <<>>]

(***************************************************************************)
(* Inputs of the Key Store.                                                *)
(***************************************************************************)
SignKeyPair == CHOOSE kp \in KeyPairs : kp.bits = 2048

\* Byte strings that are no key structure: empty, a lone tag, a cut public
\* key, a public key under a wrong tag.
NotKeys ==
    { <<>>, <<48>>, Take(PublicDer(SignKeyPair), 4), [PublicDer(SignKeyPair) EXCEPT ![1] = 49] }

DerInputs ==
    { PublicDer(kp) : kp \in KeyPairs } \cup { PrivateDer(kp) : kp \in KeyPairs } \cup NotKeys

\* PEM texts: armoured keys and byte strings, and armour that is broken.
PemTexts ==
    { PemArmor(d) : d \in { PublicDer(SignKeyPair), PrivateDer(SignKeyPair), <<48>> } }
        \cup { PemBegin \o Base64Encode(PublicDer(SignKeyPair)),
               PemBegin \o <<33, 33, 33, 33>> \o PemEnd,
               <<>> }

\* File contents that are not UTF-8.
NotUtf8 == { <<255, 254>>, PemBegin \o <<195>> \o PemEnd }

\* Arguments of type &str: texts that are UTF-8.
StrInputs == { t \in PemTexts \cup DerInputs : from_utf8_ok(t) }

\* The file at a path: whether it opens, whether it reads, and its bytes.
Files ==
    { [open |-> FALSE, readable |-> FALSE, bytes |-> <<>>],
      [open |-> TRUE, readable |-> FALSE, bytes |-> <<>>] }
        \cup { [open |-> TRUE, readable |-> TRUE, bytes |-> b] :
                 b \in DerInputs \cup PemTexts \cup NotUtf8 }

NoFile == [open |-> FALSE, readable |-> FALSE, bytes |-> <<>>]

\* Bit i of a byte string flipped, bit 0 the lowest bit of the last byte.
FlipBit(b, i) ==
    LET at == Len(b) - (i \div 8)
        w == 2 ^ (i % 8)
    IN  [b EXCEPT ![at] = IF (b[at] \div w) % 2 = 1 THEN b[at] - w ELSE b[at] + w]

FlipsOf(b) == { FlipBit(b, i) : i \in 0..(8 * Len(b) - 1) }

\* The signature of m under a key pair, as the owner of the pair computes it.
SignatureOf(kp, m) == IntToBytes(ModExp(EncodedMessage(m, kp.n), kp.d, kp.n))

(***************************************************************************)
(* signature.rs                                                            *)
(***************************************************************************)
\* lines 96-101
read_file(f) ==
    IF f.open /\ f.readable
    THEN [res |-> "Ok", contents |-> f.bytes]
    ELSE [res |-> "IO", contents |-> <<>>]

\* A constructor that checks the structure of the key.
VerificationKey_new_from_der_checked(public_key_der) ==
    IF ParsePublicKey(public_key_der) # NoKeyPair
    THEN [res |-> "Ok", key |-> public_key_der]
    ELSE [res |-> "BadPublicKey", key |-> <<>>]

\* lines 29-33
VerificationKey_new_from_der(public_key_der) ==
    [res |-> "Ok", key |-> public_key_der]

\* lines 35-38
VerificationKey_new_from_pem(public_key_pem) ==
    LET pem == pem_to_der(public_key_pem)
    IN  IF pem.res # "Ok"
        THEN [res |-> "BadPublicKey", key |-> <<>>]
        ELSE VerificationKey_new_from_der(pem.der)

\* lines 40-42
VerificationKey_new_from_der_file(f) ==
    LET r == read_file(f)
    IN  IF r.res # "Ok" THEN [res |-> "IO", key |-> <<>>]
        ELSE [res |-> "Ok", key |-> r.contents]

\* lines 44-47
VerificationKey_new_from_pem_file(f) ==
    LET pem == read_file(f)
    IN  IF pem.res # "Ok" THEN [res |-> "IO", key |-> <<>>]
        ELSE IF ~from_utf8_ok(pem.contents) THEN [res |-> "BadPublicKey", key |-> <<>>]
        ELSE VerificationKey_new_from_pem(pem.contents)

\* A verify that tells a key it cannot parse from a signature it rejects.
VerificationKey_verify_telling(key, message, sig) ==
    IF ParsePublicKey(key) = NoKeyPair THEN "BadPublicKey"
    ELSE IF ring_verify(key, message, sig) = "Ok" THEN "Ok" ELSE "BadSignature"

\* lines 49-55
VerificationKey_verify(key, message, sig) ==
    IF ring_verify(key, message, sig) = "Ok" THEN "Ok" ELSE "BadSignature"

\* lines 67-73
SigningKey_new_from_der_file(f) ==
    LET private_key_der == read_file(f)
        key_pair == RsaKeyPair_from_der(private_key_der.contents)
    IN  IF private_key_der.res # "Ok" THEN [res |-> "IO", key_pair |-> NoKeyPair]
        ELSE IF key_pair.res # "Ok" THEN [res |-> "BadPrivateKey", key_pair |-> NoKeyPair]
        ELSE [res |-> "Ok", key_pair |-> key_pair.key_pair]

\* A loader that reports text that is not UTF-8 as a bad public key.
SigningKey_new_from_pem_file_mixed(f) ==
    LET private_key_pem == read_file(f)
        private_key_der == pem_to_der(private_key_pem.contents)
        key_pair == RsaKeyPair_from_der(private_key_der.der)
    IN  IF private_key_pem.res # "Ok" THEN [res |-> "IO", key_pair |-> NoKeyPair]
        ELSE IF ~from_utf8_ok(private_key_pem.contents)
             THEN [res |-> "BadPublicKey", key_pair |-> NoKeyPair]
        ELSE IF private_key_der.res # "Ok"
             THEN [res |-> "BadPrivateKey", key_pair |-> NoKeyPair]
        ELSE IF key_pair.res # "Ok" THEN [res |-> "BadPrivateKey", key_pair |-> NoKeyPair]
        ELSE [res |-> "Ok", key_pair |-> key_pair.key_pair]

\* lines 75-85
SigningKey_new_from_pem_file(f) ==
    LET private_key_pem == read_file(f)
        private_key_der == pem_to_der(private_key_pem.contents)
        key_pair == RsaKeyPair_from_der(private_key_der.der)
    IN  IF private_key_pem.res # "Ok" THEN [res |-> "IO", key_pair |-> NoKeyPair]
        ELSE IF ~from_utf8_ok(private_key_pem.contents)
             THEN [res |-> "BadPrivateKey", key_pair |-> NoKeyPair]
        ELSE IF private_key_der.res # "Ok"
             THEN [res |-> "BadPrivateKey", key_pair |-> NoKeyPair]
        ELSE IF key_pair.res # "Ok" THEN [res |-> "BadPrivateKey", key_pair |-> NoKeyPair]
        ELSE [res |-> "Ok", key_pair |-> key_pair.key_pair]

\* A sign that hands back its buffer whether or not the key pair filled it.
SigningKey_sign_unchecked(key_pair, message, rngOk) ==
    [res |-> "Ok", sig |-> [i \in 1..ModulusLen(key_pair.n) |-> 0]]

\* lines 87-93
SigningKey_sign(key_pair, message, rngOk) ==
    LET r == RsaKeyPair_sign(key_pair, rngOk, message, ModulusLen(key_pair.n))
    IN  IF r.res # "Ok" THEN [res |-> "OutOfMemory", sig |-> <<>>]
        ELSE [res |-> "Ok", sig |-> r.sig]

(***************************************************************************)
(* The Key Store as a state machine: constructors replace the key held,    *)
(* verify and sign use it, and every call is recorded in `last`.           *)
(***************************************************************************)
NoCall ==
    [op |-> None, res |-> None, file |-> NoFile, input |-> <<>>,
     message |-> <<>>, sig |-> <<>>]

KeyIdle ==
    /\ vk = [held |-> FALSE, key |-> <<>>]
    /\ sk = [held |-> FALSE, key_pair |-> NoKeyPair]
    /\ last = NoCall

\* The VerificationKey held after a constructor returned r.
VkAfter(r) == IF r.res = "Ok" THEN [held |-> TRUE, key |-> r.key] ELSE vk

\* The SigningKey held after a constructor returned r.
SkAfter(r) == IF r.res = "Ok" THEN [held |-> TRUE, key_pair |-> r.key_pair] ELSE sk

Called(op, res, f, input) ==
    [NoCall EXCEPT !.op = op, !.res = res, !.file = f, !.input = input]

VkNewFromDer ==
    \E der \in DerInputs :
        LET r == VerificationKey_new_from_der(der)
        IN  /\ vk' = VkAfter(r)
            /\ last' = Called("VerificationKey::new_from_der", r.res, NoFile, der)
            /\ UNCHANGED <<sk, dvars>>

VkNewFromPem ==
    \E pem \in StrInputs :
        LET r == VerificationKey_new_from_pem(pem)
        IN  /\ vk' = VkAfter(r)
            /\ last' = Called("VerificationKey::new_from_pem", r.res, NoFile, pem)
            /\ UNCHANGED <<sk, dvars>>

VkNewFromDerFile ==
    \E f \in Files :
        LET r == VerificationKey_new_from_der_file(f)
        IN  /\ vk' = VkAfter(r)
            /\ last' = Called("VerificationKey::new_from_der_file", r.res, f, f.bytes)
            /\ UNCHANGED <<sk, dvars>>

VkNewFromPemFile ==
    \E f \in Files :
        LET r == VerificationKey_new_from_pem_file(f)
        IN  /\ vk' = VkAfter(r)
            /\ last' = Called("VerificationKey::new_from_pem_file", r.res, f, f.bytes)
            /\ UNCHANGED <<sk, dvars>>

SkNewFromDerFile ==
    \E f \in Files :
        LET r == SigningKey_new_from_der_file(f)
        IN  /\ sk' = SkAfter(r)
            /\ last' = Called("SigningKey::new_from_der_file", r.res, f, f.bytes)
            /\ UNCHANGED <<vk, dvars>>

SkNewFromPemFile ==
    \E f \in Files :
        LET r == SigningKey_new_from_pem_file(f)
        IN  /\ sk' = SkAfter(r)
            /\ last' = Called("SigningKey::new_from_pem_file", r.res, f, f.bytes)
            /\ UNCHANGED <<vk, dvars>>

\* Signatures of every key pair for every message, and byte strings of other
\* lengths.
OtherSignatures ==
    { SignatureOf(kp, mm) : kp \in KeyPairs, mm \in Messages } \cup { <<>>, <<7>>, <<0, 0, 7>> }

\* Signatures handed to verify with message m: what sign returns for m under
\* the signing key held, that signature with one bit flipped, and
\* OtherSignatures.
SigInputs(m) ==
    LET signed == SigningKey_sign(sk.key_pair, m, TRUE).sig
    IN  OtherSignatures \cup (IF sk.held THEN {signed} \cup FlipsOf(signed) ELSE {})

Verify ==
    /\ vk.held
    /\ \E m \in Messages :
         \E sig \in SigInputs(m) :
            last' = [NoCall EXCEPT !.op = "VerificationKey::verify",
                                   !.res = VerificationKey_verify(vk.key, m, sig),
                                   !.input = vk.key, !.message = m, !.sig = sig]
    /\ UNCHANGED <<vk, sk, dvars>>

Sign ==
    /\ sk.held
    /\ \E m \in Messages, rngOk \in BOOLEAN :
          LET r == SigningKey_sign(sk.key_pair, m, rngOk)
          IN  last' = [NoCall EXCEPT !.op = "SigningKey::sign", !.res = r.res,
                                     !.message = m, !.sig = r.sig]
    /\ UNCHANGED <<vk, sk, dvars>>

KeyNext ==
    \/ VkNewFromDer
    \/ VkNewFromPem
    \/ VkNewFromDerFile
    \/ VkNewFromPemFile
    \/ SkNewFromDerFile
    \/ SkNewFromPemFile
    \/ Verify
    \/ Sign

Init == DriverInit /\ KeyIdle

Next == DriverNext

Spec == Init /\ [][Next]_vars

KeySpec == Init /\ [][KeyNext]_vars

(***************************************************************************)
(* The driver's states, as the design names them.                          *)
(***************************************************************************)
DriverState(p) ==
    CASE p = "accept" -> "AwaitingClient"
      [] p \in {"config", "init", "attest"} -> "Attesting"
      [] p = "connect" -> "ConnectingEnclave"
      [] p = "secure" -> "SecuringChannel"
      [] p \in {"read_len", "read_body", "decode", "compare"} -> "ExchangingMessage"
      [] OTHER -> p

\* The calls of main, in program order.
Order ==
    << "accept", "config", "init", "attest", "connect", "secure",
       "read_len", "read_body", "decode", "compare" >>

Terminal == {"Done", "Error"}

Range(s) == { s[i] : i \in 1..Len(s) }

IsPrefix(s, t) == Len(s) <= Len(t) /\ s = SubSeq(t, 1, Len(s))

\* A step of main that ends in a panic.
Fail == DriverNext /\ pc' = "Error"

\* The calls at which main waits for its environment.
BlockingCalls == {"accept", "config", "init", "attest", "connect", "read_len", "read_body"}

\* read_exact of line 32 has returned Ok.
ReadSucceeded == "read_body" \in Range(log)

\* Line 36 has reported m.
Reported(m) == \E i \in 1..Len(stderr) : stderr[i] = <<"SP: message from Enclave = ", m>>

\* The phase a panic message names, if it names one.
ReportedPhase(label) ==
    CASE label = "SP: Client connection failed" -> "AwaitingClient"
      [] label = "SP: Enclave connection failed" -> "ConnectingEnclave"
      [] OTHER -> None

(***************************************************************************)
(* Properties of the Bootstrap Driver, checked under Spec.                 *)
(***************************************************************************)

\* C1: the calls of main return in program order (accept, attest, connect,
\* secure, read), each one made only after every call before it returned Ok,
\* and every SecureChannel is constructed from a master key that a successful
\* attestation produced.
C1_StrictOrder ==
    /\ IsPrefix(log, Order)
    /\ pc \notin Terminal => pc = Order[Len(log) + 1]
    /\ pc = "Done" => log = Order
    /\ \A i \in 1..Len(channels) :
          /\ channels[i] \in MasterKeys
          /\ channels[i] \in Range(keys)
          /\ IsPrefix(<<"accept", "config", "init", "attest", "connect">>, log)

C1_Witness == pc = "read_len" /\ channels = <<master_key>> /\ master_key \in MasterKeys

\* C2: when read_exact of line 32 has returned Ok the message holds exactly
\* len bytes, and when the stream closed or failed during that read, after
\* fewer than len bytes, main panicked there: no short message is passed on.
C2_FullFrameOrError ==
    /\ ReadSucceeded => Len(msg) = len
    /\ (pc = "Error" /\ failedAt = "read_body") => Len(msg) < len
    /\ ("read_len" \in Range(log) /\ Len(msg) < len) => pc \in {"read_body", "Error"}

C2_Witness ==
    /\ pc = "Error"
    /\ failedAt = "read_body"
    /\ diag.kind = "UnexpectedEof"
    /\ len = 100
    /\ Len(msg) = 50

\* C3: Error can be reached from every state that is not terminal: a panic is
\* possible at every blocking call, which covers AwaitingClient, Attesting,
\* ConnectingEnclave and ExchangingMessage, and SecuringChannel leads to the
\* framed read, where one is.  A failure leaves the driver in Error, and nothing
\* happens after Error or Done.
C3_ErrorTerminal ==
    /\ pc \in BlockingCalls => ENABLED Fail
    /\ pc = "secure" => ENABLED (DriverNext /\ pc' = "read_len")
    /\ "read_len" \in BlockingCalls
    /\ \A p \in Range(Order) : DriverState(p) # "SecuringChannel" =>
          \E q \in BlockingCalls : DriverState(q) = DriverState(p)
    /\ diag # NoDiag <=> pc = "Error"
    /\ pc = "Error" <=> failedAt # None
    /\ pc \in Terminal => ~ENABLED DriverNext

C3_Witness ==
    /\ pc = "Error"
    /\ DriverState(failedAt) = "ExchangingMessage"
    /\ "secure" \in Range(log)

\* C4 as stated: once the framed read has succeeded with valid UTF-8, whatever
\* the length and the content, the driver ends in Done and has reported the
\* decoded string.
C4_AnyMessageDone ==
    (pc \in Terminal /\ ReadSucceeded /\ from_utf8_ok(msg))
        => (pc = "Done" /\ Reported(msg))

\* C4, amended: once the framed read has succeeded with valid UTF-8, the
\* driver ends in Done, reporting the decoded string, if the string is the
\* reference message, and in Error at the comparison otherwise; a length of 0
\* makes the read return the empty string without an error of the read.
C4_ReferenceMessageDone ==
    /\ (pc \in Terminal /\ ReadSucceeded /\ from_utf8_ok(msg))
          => IF msg = msg_ref
             THEN pc = "Done" /\ Reported(msg)
             ELSE pc = "Error" /\ failedAt = "compare" /\ stderr = << <<"SP: connected to client.">> >>
    /\ ("read_len" \in Range(log) /\ len = 0 /\ pc \in Terminal)
          => (ReadSucceeded /\ msg = <<>> /\ failedAt = "compare")

C4_Witness == pc = "Done" /\ len = Len(msg_ref) /\ Reported(msg_ref)

\* C5: attestation runs at most once and produces at most one master key, at
\* most one SecureChannel is constructed, from that key, and a session that
\* ends in Done has produced exactly one key and one channel.
C5_OneKeyOneChannel ==
    /\ Len(keys) <= 1
    /\ Len(channels) <= 1
    /\ Cardinality({ i \in 1..Len(log) : log[i] = "attest" }) <= 1
    /\ master_key # None <=> keys = <<master_key>>
    /\ channels # <<>> => channels = keys
    /\ pc = "Done" => (Len(keys) = 1 /\ channels = keys)

C5_Witness == pc = "Done" /\ Len(keys) = 1 /\ channels = keys

\* C10: the panic message of every failure names the phase that failed.
C10_PhaseReported ==
    pc = "Error" => (ReportedPhase(diag.label) = DriverState(failedAt) /\ diag.kind # None)

(***************************************************************************)
(* Properties of the Key Store, checked under KeySpec.                     *)
(***************************************************************************)
FileOps ==
    { "VerificationKey::new_from_der_file", "VerificationKey::new_from_pem_file",
      "SigningKey::new_from_der_file", "SigningKey::new_from_pem_file" }

\* The bytes the last constructor was given arrived: they were an argument, or
\* the file opened and was read.
InputArrived == last.op \notin FileOps \/ (last.file.open /\ last.file.readable)

\* sig is the RSA-PKCS1-SHA256 signature of m under the public key that the
\* bytes `key` encode, a key of a size the algorithm of line 10 admits.
ValidSignature(key, m, sig) ==
    \E kp \in KeyPairs :
        /\ InRange(kp.bits, SigAlgMinBits, SigAlgMaxBits)
        /\ key = PublicDer(kp)
        /\ sig = SignatureOf(kp, m)

\* C6: verify returns Ok exactly for a valid signature of the message under
\* the key held, and BadSignature, never another error, in every other case.
C6_VerifyOkIffValid ==
    last.op = "VerificationKey::verify"
        => /\ last.res \in {"Ok", "BadSignature"}
           /\ last.res = "Ok" <=> ValidSignature(last.input, last.message, last.sig)

C6_Witness ==
    /\ last.op = "VerificationKey::verify"
    /\ last.res = "BadSignature"
    /\ ParsePublicKey(last.input) = NoKeyPair

\* C7: under the public key of the signing key held, verify accepts what sign
\* returns for the message, and rejects it with BadSignature once any single
\* bit of it is flipped.
C7_SignThenVerify ==
    (last.op = "VerificationKey::verify" /\ sk.held /\ last.input = PublicDer(sk.key_pair))
        => LET signed == SigningKey_sign(sk.key_pair, last.message, TRUE)
           IN  /\ signed.res = "Ok"
               /\ last.sig = signed.sig => last.res = "Ok"
               /\ last.sig \in FlipsOf(signed.sig) => last.res = "BadSignature"

C7_Witness ==
    /\ last.op = "VerificationKey::verify"
    /\ sk.held
    /\ last.input = PublicDer(sk.key_pair)
    /\ last.sig \in FlipsOf(SigningKey_sign(sk.key_pair, last.message, TRUE).sig)
    /\ last.res = "BadSignature"

\* C8 as stated: from bytes that are no key structure, a VerificationKey
\* constructor fails with BadPublicKey and a SigningKey constructor fails with
\* BadPrivateKey.
C8_BadDerRejected ==
    /\ ( /\ last.op \in {"VerificationKey::new_from_der", "VerificationKey::new_from_der_file"}
         /\ InputArrived
         /\ ParsePublicKey(last.input) = NoKeyPair )
          => last.res = "BadPublicKey"
    /\ ( /\ last.op = "SigningKey::new_from_der_file"
         /\ InputArrived
         /\ ParsePrivateKey(last.input) = NoKeyPair )
          => last.res = "BadPrivateKey"

\* C8, amended: from DER bytes that are no key structure, a SigningKey
\* constructor fails with BadPrivateKey and no signing key is ever held that
\* is not a consistent key pair; a VerificationKey constructor succeeds for any
\* bytes and holds them unchanged, and verify under bytes that are no key
\* structure fails with BadSignature.
C8_BadDerDeferred ==
    /\ ( /\ last.op = "SigningKey::new_from_der_file"
         /\ InputArrived
         /\ ParsePrivateKey(last.input) = NoKeyPair )
          => last.res = "BadPrivateKey"
    /\ sk.held => ParsePrivateKey(PrivateDer(sk.key_pair)) = sk.key_pair
    /\ ( /\ last.op \in {"VerificationKey::new_from_der", "VerificationKey::new_from_der_file"}
         /\ InputArrived )
          => (last.res = "Ok" /\ vk = [held |-> TRUE, key |-> last.input])
    /\ (last.op = "VerificationKey::verify" /\ ParsePublicKey(last.input) = NoKeyPair)
          => last.res = "BadSignature"

C8_Witness ==
    /\ last.op = "VerificationKey::new_from_der"
    /\ last.input \in NotKeys
    /\ last.res = "Ok"
    /\ vk.key = last.input

\* C9: loading a key from a file gives an IO error exactly when the file does
\* not open or does not read; otherwise BadPublicKey (verification key) or
\* BadPrivateKey (signing key) exactly when decoding fails, which is text that
\* is not UTF-8, bad PEM armour, or for a signing key a rejected private key;
\* otherwise a key.  No other error is reported.
C9_FileLoadOutcomes ==
    LET isPem == last.op \in {"VerificationKey::new_from_pem_file", "SigningKey::new_from_pem_file"}
        isSk == last.op \in {"SigningKey::new_from_der_file", "SigningKey::new_from_pem_file"}
        text == last.input
        pemFails == isPem /\ (~from_utf8_ok(text) \/ pem_to_der(text).res # "Ok")
        der == IF isPem THEN pem_to_der(text).der ELSE text
        decodeFails == pemFails \/ (isSk /\ RsaKeyPair_from_der(der).res # "Ok")
        bad == IF isSk THEN "BadPrivateKey" ELSE "BadPublicKey"
    IN  last.op \in FileOps
          => /\ last.res \in {"IO", bad, "Ok"}
             /\ last.res = "IO" <=> ~InputArrived
             /\ last.res = bad <=> (InputArrived /\ decodeFails)
             /\ last.res = "Ok" <=> (InputArrived /\ ~decodeFails)
             /\ last.res = "Ok" =>
                   IF isSk THEN sk = [held |-> TRUE, key_pair |-> ParsePrivateKey(der)]
                   ELSE vk = [held |-> TRUE, key |-> der]

C9_Witness ==
    /\ last.op = "SigningKey::new_from_pem_file"
    /\ last.res = "BadPrivateKey"
    /\ ~from_utf8_ok(last.input)

====
